---- MODULE Spec2Model ----
(***************************************************************************)
(* A model of the dashboard backend: the pooled database access layer      *)
(* (src/app/database.py, on psycopg2's SimpleConnectionPool), the session  *)
(* gates (src/app/auth.py) and the request handlers that combine them      *)
(* (src/app/main.py).  Request threads run concurrently (the Flask server  *)
(* serves each request on its own thread) and interleave between Python    *)
(* statements; SimpleConnectionPool takes no lock.  Steps that touch only  *)
(* a thread's own locals are folded into the step before them.             *)
(***************************************************************************)
EXTENDS Integers, Sequences, FiniteSets, TLC

\* ------------------------------------------------------------------ bounds
MaxCalls == 2        \* execute_* calls made directly, over all threads, in one run
MaxConn == 1         \* maxconn of the pool (10 in the code, scaled down)
MaxRequests == 4     \* HTTP requests served in one run
MaxReinit == 1       \* initialize_pool calls made again after start-up

\* ------------------------------------------------------- program constants
MinConn == 1         \* initialize_pool's default minconn

Threads == {1, 2}    \* request threads in flight at once
\* Connection identities: id(conn).  An identity is free again once its
\* connection is closed and nothing refers to it.
ConnIds == 1..(MinConn + 3)
NoConn == 0
NoKey == 0

UserIds == {1, 2}    \* rows of the users table; the username is the id
NoUser == 0
NoName == NoUser                          \* the username ''
UnknownUser == Cardinality(UserIds) + 1   \* a username no row has
Browsers == {1, 2}   \* clients, each with its own session cookie
Passwords == {"pw1", "pw2"}
NewPasswords == {"pw2"}     \* the passwords a request sets
Items == {1, 2}      \* ids of dashboard items

VARIABLES
    phase,           \* "import" | "serving" | "crashed": module import, then requests
    pool,            \* DatabaseManager.pool: "None" | "Open"
    poolsCreated,    \* how many SimpleConnectionPool objects were constructed
    minconn,         \* pool.minconn
    maxconn,         \* pool.maxconn
    closed,          \* pool.closed
    idle,            \* pool._pool: the list of idle connections
    used,            \* pool._used: key -> connection
    rused,           \* pool._rused: connection -> key
    keys,            \* pool._keys
    reinit,          \* initialize_pool calls made again after start-up
    cst,             \* each connection: its transaction status and pending writes
    store,           \* the committed contents of the database
    started,         \* execute_* calls made directly so far
    pc,              \* each thread's position inside execute_*
    loc,             \* each thread's local variables inside execute_*
    gh,              \* per call: what the call has done so far
    nreq,            \* requests served so far
    cookie,          \* each browser's session cookie
    last             \* the request served last: what it was and how it was answered

poolVars == <<pool, poolsCreated, minconn, maxconn, closed, idle, used, rused, keys>>
callVars == <<pc, loc, gh>>
appVars == <<nreq, cookie, last>>
vars == <<phase, pool, poolsCreated, minconn, maxconn, closed, idle, used, rused,
          keys, reinit, cst, store, started, pc, loc, gh, nreq, cookie, last>>

EmptyMap == [k \in {} |-> 0]
MapPut(f, k, v) == [x \in DOMAIN f \cup {k} |-> IF x = k THEN v ELSE f[x]]
MapDel(f, k) == [x \in DOMAIN f \ {k} |-> f[x]]

\* ----------------------------------------------------------- the database
\* status: "closed", or libpq's transaction status of an open connection:
\* "idle", "intrans" (in a transaction, failed or not), "unknown" (server lost).
NewConn == [status |-> "idle", pending |-> <<>>]
ClosedConn == [status |-> "closed", pending |-> <<>>]
IsClosed(c) == cst[c].status = "closed"

NoRow == [exists |-> FALSE]
UserRow(adm, mcp, pw) ==
    [exists |-> TRUE, is_admin |-> adm, must_change_password |-> mcp,
     password_hash |-> pw]

\* The statements main.py sends, by what they do to the tables modelled.
IsWrite(st) == st.k \notin {"select", "select_user"}

\* One write statement applied to the committed store.  An UPDATE or DELETE
\* of a row that is not there changes nothing.
ApplyWrite(s, w) ==
    CASE w.k = "usage" -> [s EXCEPT !.usage = @ \cup {w.id}]
      [] w.k = "set_password" ->
            IF s.users[w.id].exists
            THEN [s EXCEPT !.users[w.id].password_hash = w.hash,
                           !.users[w.id].must_change_password = w.mcp]
            ELSE s
      [] w.k = "update_user" ->
            IF ~s.users[w.id].exists THEN s
            ELSE IF w.setpw
            THEN [s EXCEPT !.users[w.id].is_admin = w.is_admin,
                           !.users[w.id].password_hash = w.hash,
                           !.users[w.id].must_change_password = TRUE]
            ELSE [s EXCEPT !.users[w.id].is_admin = w.is_admin]
      [] w.k = "history" -> [s EXCEPT !.history = @ \cup {<<w.id, w.by>>}]
      [] w.k = "delete_user" -> [s EXCEPT !.users[w.id] = NoRow]
      [] w.k = "delete_items" -> [s EXCEPT !.user_items[w.id] = <<>>]
      [] w.k = "insert_item" -> [s EXCEPT !.user_items[w.id] = Append(@, w.item)]
      [] OTHER -> s

RECURSIVE ApplyAll(_, _)
ApplyAll(s, ws) == IF ws = <<>> THEN s ELSE ApplyAll(ApplyWrite(s, Head(ws)), Tail(ws))

\* The row a SELECT ... FROM users WHERE username/id = %s returns.
SelectRow(s, st) ==
    IF st.k = "select_user" /\ st.id \in UserIds /\ s.users[st.id].exists
    THEN [id |-> st.id] @@ s.users[st.id]
    ELSE NoRow

InitLoc == [op |-> "none", conn |-> NoConn, c |-> NoConn, key |-> NoKey,
            pkey |-> NoKey, keep |-> FALSE, tmp |-> 0, exc |-> "none",
            stmt |-> [k |-> "none"], row |-> NoRow]
InitGh == [commits |-> 0, rollbacks |-> 0, returns |-> 0, failedAt |-> "none"]

\* bcrypt, without the salt: the hash of a password, and the check against it.
hash_password(p) == <<"bcrypt", p>>

\* Values of users.password_hash that bcrypt.hashpw never returns: one whose
\* salt part bcrypt cannot parse, and one with a salt but a cut-off digest.
InvalidSalt == <<"invalid salt">>
ShortDigest == <<"bcrypt", "cut off">>
Malformed(h) == h \in {InvalidSalt, ShortDigest}

\* bcrypt.checkpw hashes the password with the salt of h and compares; it
\* raises ValueError when it finds no salt in h.
verify_password_raises(h) == h = InvalidSalt
verify_password(p, h) == h = <<"bcrypt", p>>

\* The Flask session, carried by the browser's cookie.  A missing key reads
\* as session.get's default; user_id NoUser is "no user_id in session".
Session(u, adm, mcp) == [user_id |-> u, is_admin |-> adm, must_change_password |-> mcp]
NoSession == Session(NoUser, FALSE, FALSE)
NoRequest ==
    [h |-> "none", b |-> 0, gate |-> "none", api |-> FALSE, session |-> NoSession,
     gone |-> FALSE, ran |-> FALSE, status |-> 0, body |-> "", issued |-> 0,
     applied |-> 0, user |-> NoUser, dbfail |-> FALSE]

InitStore ==
    [users |-> [u \in UserIds |-> UserRow(u = 1, FALSE, hash_password("pw1"))],
     user_items |-> [u \in UserIds |-> <<>>],
     history |-> {},
     usage |-> {}]

\* The users table as the program may find it: rows written by other hands
\* may hold a password_hash that is no bcrypt output.
StoredHashes == {hash_password("pw1"), InvalidSalt, ShortDigest}
FoundStores ==
    {[InitStore EXCEPT !.users = [u \in UserIds |->
                                    [InitStore.users[u] EXCEPT !.password_hash = hs[u]]]] :
        hs \in [UserIds -> StoredHashes]}

InitLogin ==
    /\ store \in FoundStores
    /\ phase = "import"
    /\ pool = "None"
    /\ poolsCreated = 0
    /\ minconn = 0
    /\ maxconn = 0
    /\ closed = FALSE
    /\ idle = <<>>
    /\ used = EmptyMap
    /\ rused = EmptyMap
    /\ keys = 0
    /\ reinit = 0
    /\ cst = [c \in ConnIds |-> ClosedConn]
    /\ started = 0
    /\ pc = [t \in Threads |-> "idle"]
    /\ loc = [t \in Threads |-> InitLoc]
    /\ gh = [t \in Threads |-> InitGh]
    /\ nreq = 0
    /\ cookie = [b \in Browsers |-> NoSession]
    /\ last = NoRequest

Init ==
    /\ phase = "import"
    /\ pool = "None"
    /\ poolsCreated = 0
    /\ minconn = 0
    /\ maxconn = 0
    /\ closed = FALSE
    /\ idle = <<>>
    /\ used = EmptyMap
    /\ rused = EmptyMap
    /\ keys = 0
    /\ reinit = 0
    /\ cst = [c \in ConnIds |-> ClosedConn]
    /\ store = InitStore
    /\ started = 0
    /\ pc = [t \in Threads |-> "idle"]
    /\ loc = [t \in Threads |-> InitLoc]
    /\ gh = [t \in Threads |-> InitGh]
    /\ nreq = 0
    /\ cookie = [b \in Browsers |-> NoSession]
    /\ last = NoRequest

\* ------------------------------------------------------------ the pool
\* SimpleConnectionPool(minc, maxc, url): minc connections are opened eagerly.
NewPool(minc, maxc) ==
    /\ pool' = "Open"
    /\ poolsCreated' = poolsCreated + 1
    /\ minconn' = minc
    /\ maxconn' = maxc
    /\ closed' = FALSE
    /\ idle' = [i \in 1..minc |-> i]
    /\ cst' = [c \in ConnIds |-> IF c \in 1..minc THEN NewConn ELSE cst[c]]
    /\ used' = EmptyMap
    /\ rused' = EmptyMap
    /\ keys' = 0

\* initialize_pool as it would be without its "if self.pool is None" guard.
initialize_pool_unguarded(minc, maxc) == NewPool(minc, maxc)

\* DatabaseManager.initialize_pool
initialize_pool(minc, maxc) ==
    IF pool = "None" THEN NewPool(minc, maxc) ELSE UNCHANGED <<poolVars, cst>>

\* main.py: db = DatabaseManager(url); db.initialize_pool(), at import.  The
\* constructor raises when the database cannot be reached and the import fails.
Startup ==
    /\ phase = "import"
    /\ \/ /\ initialize_pool(MinConn, MaxConn)
          /\ phase' = "serving"
       \/ /\ phase' = "crashed"
          /\ UNCHANGED <<poolVars, cst>>
    /\ UNCHANGED <<reinit, store, started, callVars, appVars>>

\* A further initialize_pool call on the serving DatabaseManager.
InitializePoolAgain(minc, maxc) ==
    /\ phase = "serving"
    /\ reinit < MaxReinit
    /\ initialize_pool(minc, maxc)
    /\ reinit' = reinit + 1
    /\ UNCHANGED <<phase, store, started, callVars, appVars>>

\* SimpleConnectionPool.closeall: every idle and every leased connection is
\* closed, then self.closed = True.
closeall ==
    /\ cst' = [c \in ConnIds |->
                 IF c \in {idle[i] : i \in DOMAIN idle} \cup {used[k] : k \in DOMAIN used}
                 THEN ClosedConn ELSE cst[c]]
    /\ closed' = TRUE

\* close_all as it would be if it also dropped the pool: self.pool = None.
close_all_dropping_pool ==
    /\ phase = "serving"
    /\ pool = "Open" /\ ~closed
    /\ closeall
    /\ pool' = "None"
    /\ UNCHANGED <<phase, poolsCreated, minconn, maxconn, idle, used, rused, keys,
                   reinit, store, started, callVars, appVars>>

\* DatabaseManager.close_all: if self.pool: self.pool.closeall().  On a pool
\* that is closed already closeall raises PoolError and changes nothing.
close_all ==
    /\ phase = "serving"
    /\ IF pool = "Open" /\ ~closed
       THEN closeall
       ELSE UNCHANGED <<cst, closed>>
    /\ UNCHANGED <<phase, pool, poolsCreated, minconn, maxconn, idle, used, rused,
                   keys, reinit, store, started, callVars, appVars>>

\* ------------------------------------------------- execute_*: acquiring
\* The call ends before it held a connection: except and finally find conn
\* None, and the error goes to the caller.
FailAcquire(t, e) ==
    /\ loc' = [loc EXCEPT ![t].exc = e]
    /\ gh' = [gh EXCEPT ![t].failedAt = "acquire"]
    /\ pc' = [pc EXCEPT ![t] = "return"]

\* execute_query / execute_one / execute_insert is entered with statement st:
\*   conn = None; conn = self.get_connection()
\* get_connection: if self.pool is None: self.initialize_pool()
\*                 return self.pool.getconn()
\* _getconn: if self.closed: raise PoolError("connection pool is closed")
get_connection(t, o, st) ==
    /\ pc[t] = "idle"
    /\ initialize_pool(MinConn, MaxConn)
    /\ IF closed
       THEN /\ loc' = [loc EXCEPT ![t] = [InitLoc EXCEPT !.op = o, !.stmt = st,
                                                        !.exc = "PoolClosed"]]
            /\ gh' = [gh EXCEPT ![t] = [InitGh EXCEPT !.failedAt = "acquire"]]
            /\ pc' = [pc EXCEPT ![t] = "return"]
       ELSE /\ loc' = [loc EXCEPT ![t] = [InitLoc EXCEPT !.op = o, !.stmt = st]]
            /\ gh' = [gh EXCEPT ![t] = InitGh]
            /\ pc' = [pc EXCEPT ![t] = "getkey_read"]

Ops == {"query_fetch", "query_nofetch", "one", "insert"}

\* A request thread calls execute_query / execute_one / execute_insert: the
\* usage handlers and the item listings, one statement each.
CallExecute(t, o) ==
    /\ phase = "serving"
    /\ \A u \in Threads : u < t => pc[u] # "idle"
    /\ started < MaxCalls
    /\ started' = started + 1
    /\ get_connection(t, o, IF o \in {"query_nofetch", "insert"}
                            THEN [k |-> "usage", id |-> t] ELSE [k |-> "select"])
    /\ UNCHANGED <<phase, reinit, store, appVars>>

\* _getkey: self._keys += 1 reads ...
getkey_read(t) ==
    /\ pc[t] = "getkey_read"
    /\ loc' = [loc EXCEPT ![t].tmp = keys]
    /\ pc' = [pc EXCEPT ![t] = "getkey_write"]
    /\ UNCHANGED <<phase, poolVars, reinit, cst, store, started, gh, appVars>>

\* ... and then writes
getkey_write(t) ==
    /\ pc[t] = "getkey_write"
    /\ keys' = loc[t].tmp + 1
    /\ loc' = [loc EXCEPT ![t].tmp = 0]
    /\ pc' = [pc EXCEPT ![t] = "getkey_ret"]
    /\ UNCHANGED <<phase, pool, poolsCreated, minconn, maxconn, closed, idle, used,
                   rused, reinit, cst, store, started, gh, appVars>>

\* _getkey: return self._keys
getkey_ret(t) ==
    /\ pc[t] = "getkey_ret"
    /\ loc' = [loc EXCEPT ![t].key = keys]
    /\ pc' = [pc EXCEPT ![t] = "g_used"]
    /\ UNCHANGED <<phase, poolVars, reinit, cst, store, started, gh, appVars>>

\* get_connection returns c to execute_*: conn = self.get_connection()
Acquired(t, c) ==
    /\ loc' = [loc EXCEPT ![t].conn = c, ![t].c = NoConn, ![t].key = NoKey]
    /\ UNCHANGED gh
    /\ pc' = [pc EXCEPT ![t] = "execute"]

\* _getconn: if key in self._used: return self._used[key]
g_used(t) ==
    /\ pc[t] = "g_used"
    /\ IF loc[t].key \in DOMAIN used
       THEN Acquired(t, used[loc[t].key])
       ELSE /\ pc' = [pc EXCEPT ![t] = "g_pool"]
            /\ UNCHANGED <<loc, gh>>
    /\ UNCHANGED <<phase, poolVars, reinit, cst, store, started, appVars>>

\* _getconn: if self._pool:
g_pool(t) ==
    /\ pc[t] = "g_pool"
    /\ pc' = [pc EXCEPT ![t] = IF idle # <<>> THEN "g_pop" ELSE "g_len"]
    /\ UNCHANGED <<phase, poolVars, reinit, cst, store, started, loc, gh, appVars>>

\* _getconn: self._used[key] = conn = self._pool.pop()
g_pop(t) ==
    /\ pc[t] = "g_pop"
    /\ IF idle = <<>>
       THEN /\ FailAcquire(t, "IndexError")
            /\ UNCHANGED <<idle, used>>
       ELSE /\ idle' = SubSeq(idle, 1, Len(idle) - 1)
            /\ used' = MapPut(used, loc[t].key, idle[Len(idle)])
            /\ loc' = [loc EXCEPT ![t].c = idle[Len(idle)]]
            /\ pc' = [pc EXCEPT ![t] = "g_rused"]
            /\ UNCHANGED gh
    /\ UNCHANGED <<phase, pool, poolsCreated, minconn, maxconn, closed, rused, keys,
                   reinit, cst, store, started, appVars>>

\* _getconn as it would be without the maxconn test: a new connection is
\* opened whatever is leased.
g_len_unbounded(t) ==
    /\ pc[t] = "g_len"
    /\ pc' = [pc EXCEPT ![t] = "connect"]
    /\ UNCHANGED <<phase, poolVars, reinit, cst, store, started, loc, gh, appVars>>

\* _getconn: if len(self._used) == self.maxconn:
\*               raise PoolError("connection pool exhausted")
g_len(t) ==
    /\ pc[t] = "g_len"
    /\ IF Cardinality(DOMAIN used) = maxconn
       THEN FailAcquire(t, "PoolExhausted")
       ELSE /\ pc' = [pc EXCEPT ![t] = "connect"]
            /\ UNCHANGED <<loc, gh>>
    /\ UNCHANGED <<phase, poolVars, reinit, cst, store, started, appVars>>

Referenced ==
    {idle[i] : i \in DOMAIN idle} \cup {used[k] : k \in DOMAIN used} \cup DOMAIN rused
        \cup {loc[t].conn : t \in Threads} \cup {loc[t].c : t \in Threads}
FreeIds == {c \in ConnIds : IsClosed(c) /\ c \notin Referenced}
FreshId == CHOOSE c \in FreeIds : \A d \in FreeIds : c <= d

\* _connect: conn = psycopg2.connect(...), which may fail;
\*           self._used[key] = conn
connect(t) ==
    /\ pc[t] = "connect"
    /\ \/ /\ FreeIds # {}
          /\ cst' = [cst EXCEPT ![FreshId] = NewConn]
          /\ used' = MapPut(used, loc[t].key, FreshId)
          /\ loc' = [loc EXCEPT ![t].c = FreshId]
          /\ pc' = [pc EXCEPT ![t] = "g_rused"]
          /\ UNCHANGED gh
       \/ /\ FailAcquire(t, "OperationalError")
          /\ UNCHANGED <<cst, used>>
    /\ UNCHANGED <<phase, pool, poolsCreated, minconn, maxconn, closed, idle, rused,
                   keys, reinit, store, started, appVars>>

\* self._rused[id(conn)] = key; return conn
g_rused(t) ==
    /\ pc[t] = "g_rused"
    /\ rused' = MapPut(rused, loc[t].c, loc[t].key)
    /\ Acquired(t, loc[t].c)
    /\ UNCHANGED <<phase, pool, poolsCreated, minconn, maxconn, closed, idle, used,
                   keys, reinit, cst, store, started, appVars>>

\* --------------------------------------------- execute_*: the statement
SetConn(c, f) == cst' = [cst EXCEPT ![c] = f]

\* A statement, commit or rollback fails: the server reports an error, or
\* the connection to it is lost.
ConnFails(c) ==
    \/ cst' = cst
    \/ /\ ~IsClosed(c)
       /\ SetConn(c, [cst[c] EXCEPT !.status = "unknown"])

Raise(t, e, at) ==
    /\ loc' = [loc EXCEPT ![t].exc = e]
    /\ gh' = [gh EXCEPT ![t].failedAt = at]
    /\ pc' = [pc EXCEPT ![t] = "except"]

\* with conn.cursor(...) as cursor:
\*     cursor.execute(query, params)
\*     execute_query(fetch=True): return [dict(row) for row in cursor.fetchall()]
\*     execute_one:               result = cursor.fetchone(); return ...
\*     execute_insert:            result = cursor.fetchone(), then the commit
\* The statement joins the connection's open transaction, or fails; the
\* fetch reads the cursor and may fail too.
execute(t) ==
    /\ pc[t] = "execute"
    /\ LET c == loc[t].conn
           st == loc[t].stmt IN
       \/ /\ ~IsClosed(c)
          /\ cst[c].status # "unknown"
          /\ SetConn(c, [cst[c] EXCEPT !.status = "intrans",
                            !.pending = IF IsWrite(st) THEN Append(@, st) ELSE @])
          /\ \/ /\ loc' = [loc EXCEPT ![t].row = SelectRow(store, st)]
                /\ pc' = [pc EXCEPT ![t] = IF loc[t].op \in {"query_nofetch", "insert"}
                                           THEN "commit" ELSE "return_connection"]
                /\ UNCHANGED gh
             \/ /\ loc[t].op # "query_nofetch"
                /\ Raise(t, "DatabaseError", "fetch")
       \/ /\ ConnFails(c)
          /\ Raise(t, "DatabaseError", "execute")
    /\ UNCHANGED <<phase, poolVars, reinit, store, started, appVars>>

\* conn.commit(): the pending writes of the connection's transaction reach the
\* store, or the commit fails and none does.
commit(t) ==
    /\ pc[t] = "commit"
    /\ LET c == loc[t].conn IN
       \/ /\ ~IsClosed(c)
          /\ cst[c].status # "unknown"
          /\ store' = ApplyAll(store, cst[c].pending)
          /\ SetConn(c, [cst[c] EXCEPT !.status = "idle", !.pending = <<>>])
          /\ gh' = [gh EXCEPT ![t].commits = @ + 1]
          /\ pc' = [pc EXCEPT ![t] = "return_connection"]
          /\ UNCHANGED loc
       \/ /\ ConnFails(c)
          /\ Raise(t, "DatabaseError", "commit")
          /\ UNCHANGED store
    /\ UNCHANGED <<phase, poolVars, reinit, started, appVars>>

\* The except clause as it would be without conn.rollback(): the error is
\* raised again at once.
except_no_rollback(t) ==
    /\ pc[t] = "except"
    /\ pc' = [pc EXCEPT ![t] = "return_connection"]
    /\ UNCHANGED <<phase, poolVars, reinit, cst, store, started, loc, gh, appVars>>

\* except Exception as e: if conn: conn.rollback(); raise e
\* (conn is set whenever this is reached.)  A failing rollback raises its own
\* error in place of e.
except(t) ==
    /\ pc[t] = "except"
    /\ LET c == loc[t].conn IN
       \/ /\ ~IsClosed(c)
          /\ cst[c].status # "unknown"
          /\ SetConn(c, [cst[c] EXCEPT !.status = "idle", !.pending = <<>>])
          /\ UNCHANGED loc
       \/ /\ ConnFails(c)
          /\ loc' = [loc EXCEPT ![t].exc = "RollbackError"]
    /\ gh' = [gh EXCEPT ![t].rollbacks = @ + 1]
    /\ pc' = [pc EXCEPT ![t] = "return_connection"]
    /\ UNCHANGED <<phase, poolVars, reinit, store, started, appVars>>

\* ---------------------------------------------- execute_*: releasing
\* An error inside pool.putconn leaves return_connection and execute_*.
PutRaise(t, e) ==
    /\ loc' = [loc EXCEPT ![t].exc = e]
    /\ pc' = [pc EXCEPT ![t] = "return"]

\* finally: if conn: self.return_connection(conn)
\* return_connection: if self.pool: self.pool.putconn(conn)
\* _putconn: if self.closed: raise PoolError("connection pool is closed")
\*           key = self._rused.get(id(conn))
\*           if key is None: raise PoolError("trying to put unkeyed connection")
return_connection(t) ==
    /\ pc[t] = "return_connection"
    /\ gh' = [gh EXCEPT ![t].returns = @ + 1]
    /\ IF pool = "None"
       THEN /\ pc' = [pc EXCEPT ![t] = "return"]
            /\ UNCHANGED loc
       ELSE IF closed \/ loc[t].conn \notin DOMAIN rused
       THEN PutRaise(t, "PoolError")
       ELSE /\ loc' = [loc EXCEPT ![t].pkey = rused[loc[t].conn]]
            /\ pc' = [pc EXCEPT ![t] = "p_check"]
    /\ UNCHANGED <<phase, poolVars, reinit, cst, store, started, appVars>>

\* _putconn: if len(self._pool) < self.minconn and not close:
p_check(t) ==
    /\ pc[t] = "p_check"
    /\ loc' = [loc EXCEPT ![t].keep = Len(idle) < minconn]
    /\ pc' = [pc EXCEPT ![t] = "p_put"]
    /\ UNCHANGED <<phase, poolVars, reinit, cst, store, started, gh, appVars>>

\* _putconn, kept: a closed connection is dropped, one whose server is lost is
\* closed, one inside a transaction is rolled back, and the connection is
\* appended to _pool.  Not kept: conn.close().
p_put(t) ==
    /\ pc[t] = "p_put"
    /\ LET c == loc[t].conn IN
       IF ~loc[t].keep
       THEN /\ SetConn(c, ClosedConn)
            /\ UNCHANGED idle
       ELSE IF IsClosed(c)
       THEN UNCHANGED <<cst, idle>>
       ELSE IF cst[c].status = "unknown"
       THEN /\ SetConn(c, ClosedConn)
            /\ UNCHANGED idle
       ELSE /\ SetConn(c, NewConn)
            /\ idle' = Append(idle, c)
    /\ loc' = [loc EXCEPT ![t].keep = FALSE]
    /\ pc' = [pc EXCEPT ![t] = "p_delused"]
    /\ UNCHANGED <<phase, pool, poolsCreated, minconn, maxconn, closed, used, rused,
                   keys, reinit, store, started, gh, appVars>>

\* _putconn: if not self.closed or key in self._used: del self._used[key]
p_delused(t) ==
    /\ pc[t] = "p_delused"
    /\ IF closed /\ loc[t].pkey \notin DOMAIN used
       THEN /\ pc' = [pc EXCEPT ![t] = "return"]
            /\ UNCHANGED <<used, loc>>
       ELSE IF loc[t].pkey \notin DOMAIN used
       THEN /\ PutRaise(t, "KeyError")
            /\ UNCHANGED used
       ELSE /\ used' = MapDel(used, loc[t].pkey)
            /\ pc' = [pc EXCEPT ![t] = "p_delrused"]
            /\ loc' = [loc EXCEPT ![t].pkey = NoKey]
    /\ UNCHANGED <<phase, pool, poolsCreated, minconn, maxconn, closed, idle, rused,
                   keys, reinit, cst, store, started, gh, appVars>>

\* _putconn: del self._rused[id(conn)]
p_delrused(t) ==
    /\ pc[t] = "p_delrused"
    /\ IF loc[t].conn \notin DOMAIN rused
       THEN /\ PutRaise(t, "KeyError")
            /\ UNCHANGED rused
       ELSE /\ rused' = MapDel(rused, loc[t].conn)
            /\ pc' = [pc EXCEPT ![t] = "return"]
            /\ UNCHANGED loc
    /\ UNCHANGED <<phase, pool, poolsCreated, minconn, maxconn, closed, idle, used,
                   keys, reinit, cst, store, started, gh, appVars>>

\* execute_* ends: it returns its result to the caller, or the error reaches
\* the caller.
return(t) ==
    /\ pc[t] = "return"
    /\ pc' = [pc EXCEPT ![t] = "idle"]
    /\ loc' = [loc EXCEPT ![t] = InitLoc]
    /\ gh' = [gh EXCEPT ![t] = InitGh]
    /\ UNCHANGED <<phase, poolVars, reinit, cst, store, started, appVars>>

PoolStep(t) ==
    \/ getkey_read(t) \/ getkey_write(t) \/ getkey_ret(t)
    \/ g_used(t) \/ g_pool(t) \/ g_pop(t) \/ g_len(t) \/ connect(t) \/ g_rused(t)
    \/ execute(t) \/ commit(t) \/ except(t)
    \/ return_connection(t) \/ p_check(t) \/ p_put(t) \/ p_delused(t)
    \/ p_delrused(t) \/ return(t)

\* ----------------------------------------------------- requests: the gates
\* What a gate decides: the wrapped handler runs, or this response is sent.
Pass == [pass |-> TRUE, status |-> 0, body |-> ""]
Deny(status, body) == [pass |-> FALSE, status |-> status, body |-> body]

\* login_required as it would be without the user_id test: every request
\* reaches the handler.
login_required_open(s, api) == Pass

\* auth.login_required, for session s; api: request.path.startswith('/api/')
login_required(s, api) ==
    IF s.user_id = NoUser
    THEN IF api THEN Deny(401, "Unauthorized") ELSE Deny(302, "login")
    ELSE Pass

\* admin_required as it would be without its is_admin test.
admin_required_no_role(s, api) ==
    IF s.user_id = NoUser
    THEN IF api THEN Deny(401, "Unauthorized") ELSE Deny(302, "login")
    ELSE Pass

\* auth.admin_required
admin_required(s, api) ==
    IF s.user_id = NoUser
    THEN IF api THEN Deny(401, "Unauthorized") ELSE Deny(302, "login")
    ELSE IF ~s.is_admin
    THEN IF api THEN Deny(403, "Forbidden - Admin access required")
                ELSE Deny(302, "dashboard")
    ELSE Pass

\* The session names a user whose row is no longer in the users table.
Gone(s) == s.user_id # NoUser /\ ~store.users[s.user_id].exists

\* A request of browser b to handler h is answered.  ran: the handler's body
\* was entered; issued, applied: the write statements the body set out to
\* make, and how many of them were committed; cookie2: the cookies once the
\* response has reached the browser; store2: the database after the request;
\* u: the username a login request posted; dbfail: a database call of the
\* request failed.
Respond(h, b, gate, api, ran, status, body, issued, applied, cookie2, store2, u, dbfail) ==
    /\ phase = "serving"
    /\ nreq < MaxRequests
    /\ nreq' = nreq + 1
    /\ last' = [h |-> h, b |-> b, gate |-> gate, api |-> api, session |-> cookie[b],
                gone |-> Gone(cookie[b]), ran |-> ran, status |-> status,
                body |-> body, issued |-> issued, applied |-> applied,
                user |-> u, dbfail |-> dbfail]
    /\ cookie' = cookie2
    /\ store' = store2
    /\ UNCHANGED <<phase, poolVars, reinit, cst, started, callVars>>

\* A request to a handler other than login is answered.
Finish(h, b, gate, api, ran, status, body, issued, applied, cookie2, store2) ==
    Respond(h, b, gate, api, ran, status, body, issued, applied, cookie2, store2,
            NoUser, applied < issued)

\* The gate answers in the handler's place.
Denied(h, b, gate, api, g) ==
    Finish(h, b, gate, api, FALSE, g.status, g.body, 0, 0, cookie, store)

\* The handler's body ran and changed neither the session nor the database.
Served(h, b, gate, api, status, body) ==
    Finish(h, b, gate, api, TRUE, status, body, 0, 0, cookie, store)

SetCookie(b, s) == [cookie EXCEPT ![b] = s]

\* ws sent one statement per execute_query(fetch=False) call, each call
\* committing on its own, when call number f fails (0: none does): the
\* statements committed, and the store after them.
Applied(ws, f) == IF f = 0 THEN Len(ws) ELSE f - 1
Committed(ws, f) == ApplyAll(store, SubSeq(ws, 1, Applied(ws, f)))

\* ----------------------------------------------------- requests: handlers
\* main.login before its session and last_login writes: what it answers to
\* username u and password pw ('' for a missing field) when the SELECT
\* succeeds.  A stored hash bcrypt cannot parse makes verify_password raise.
LoginReply(u, pw) ==
    LET row == SelectRow(store, [k |-> "select_user", id |-> u]) IN
    IF u = NoName \/ pw = ""
    THEN [status |-> 400, body |-> "Username and password required"]
    ELSE IF ~row.exists
    THEN [status |-> 401, body |-> "Invalid username or password"]
    ELSE IF verify_password_raises(row.password_hash)
    THEN [status |-> 500, body |-> "error"]
    ELSE IF ~verify_password(pw, row.password_hash)
    THEN [status |-> 401, body |-> "Invalid username or password"]
    ELSE [status |-> 200,
          body |-> IF row.must_change_password THEN "/change-password"
                   ELSE IF row.is_admin THEN "/admin/users" ELSE "/dashboard"]

\* main.login, POST.  f: which of its two database calls fails (1: the
\* SELECT, 2: the last_login UPDATE).  An error that leaves the handler is
\* answered 500; the session written before it is saved with that response,
\* or lost when the server propagates the error.
login(b, u, pw, f) ==
    LET row == SelectRow(store, [k |-> "select_user", id |-> u])
        sess == Session(row.id, row.is_admin, row.must_change_password)
        r == LoginReply(u, pw)
        Answer(status, body, dbfail) ==
            Respond("login", b, "none", FALSE, TRUE, status, body, 0, 0, cookie,
                    store, u, dbfail) IN
    IF r.status = 400
    THEN /\ f = 0
         /\ Answer(r.status, r.body, FALSE)
    ELSE IF f = 1
    THEN Answer(500, "error", TRUE)
    ELSE IF r.status # 200
    THEN /\ f = 0
         /\ Answer(r.status, r.body, FALSE)
    ELSE IF f = 2
    THEN \E saved \in BOOLEAN :
            Respond("login", b, "none", FALSE, TRUE, 500, "error", 1, 0,
                    IF saved THEN SetCookie(b, sess) ELSE cookie, store, u, TRUE)
    ELSE Respond("login", b, "none", FALSE, TRUE, r.status, r.body, 1, 1,
                 SetCookie(b, sess),
                 ApplyWrite(store, [k |-> "last_login", id |-> row.id]), u, FALSE)

\* main.logout
logout(b) ==
    /\ b \in Browsers
    /\ Finish("logout", b, "none", FALSE, TRUE, 302, "login", 0, 0,
              SetCookie(b, NoSession), store)

\* main.dashboard: a page behind login_required
dashboard(b) ==
    LET g == login_required(cookie[b], FALSE) IN
    IF ~g.pass THEN Denied("dashboard", b, "login", FALSE, g)
    ELSE IF cookie[b].must_change_password
    THEN Served("dashboard", b, "login", FALSE, 302, "change_password")
    ELSE Served("dashboard", b, "login", FALSE, 200, "dashboard.html")

\* main.api_me: an API behind login_required
api_me(b) ==
    LET g == login_required(cookie[b], TRUE) IN
    IF ~g.pass THEN Denied("api_me", b, "login", TRUE, g)
    ELSE Served("api_me", b, "login", TRUE, 200, "user")

\* main.admin_users: a page behind admin_required
admin_users(b) ==
    LET g == admin_required(cookie[b], FALSE) IN
    IF ~g.pass THEN Denied("admin_users", b, "admin", FALSE, g)
    ELSE Served("admin_users", b, "admin", FALSE, 200, "admin_users.html")

\* main.change_password, POST with well-formed fields, behind login_required.
\* f: which of its three database calls fails (1: the SELECT, 2: the users
\* UPDATE, 3: the history INSERT).  A user whose row is gone makes
\* user['password_hash'] raise.
change_password(b, cur, new, f) ==
    LET g == login_required(cookie[b], FALSE)
        uid == cookie[b].user_id
        row == SelectRow(store, [k |-> "select_user", id |-> uid])
        ws == <<[k |-> "set_password", id |-> uid, hash |-> hash_password(new),
                 mcp |-> FALSE],
                [k |-> "history", id |-> uid, by |-> uid]>> IN
    IF ~g.pass
    THEN /\ f = 0
         /\ Denied("change_password", b, "login", FALSE, g)
    ELSE IF f = 1 \/ ~row.exists \/ verify_password_raises(row.password_hash)
    THEN /\ f \in {0, 1}
         /\ Served("change_password", b, "login", FALSE, 500, "error")
    ELSE IF ~verify_password(cur, row.password_hash)
    THEN /\ f = 0
         /\ Served("change_password", b, "login", FALSE, 401,
                   "Current password incorrect")
    ELSE IF f = 0
    THEN Finish("change_password", b, "login", FALSE, TRUE, 200,
                IF cookie[b].is_admin THEN "/admin/users" ELSE "/dashboard", 2, 2,
                SetCookie(b, [cookie[b] EXCEPT !.must_change_password = FALSE]),
                Committed(ws, 0))
    ELSE Finish("change_password", b, "login", FALSE, TRUE, 500, "error", 2,
                Applied(ws, f - 1), cookie, Committed(ws, f - 1))

\* The statements of api_admin_users_update: the users UPDATE and, with a new
\* password, the history INSERT.
UpdateStatements(b, target, adm, newpw) ==
    IF newpw # ""
    THEN <<[k |-> "update_user", id |-> target, is_admin |-> adm, setpw |-> TRUE,
            hash |-> hash_password(newpw)],
           [k |-> "history", id |-> target, by |-> cookie[b].user_id]>>
    ELSE <<[k |-> "update_user", id |-> target, is_admin |-> adm, setpw |-> FALSE,
            hash |-> <<>>]>>

\* api_admin_users_update as it would be if it also rewrote the sessions of
\* the user it changes.
api_admin_users_update_refreshing(b, target, adm, newpw, f) ==
    LET g == admin_required(cookie[b], TRUE)
        ws == UpdateStatements(b, target, adm, newpw) IN
    IF ~g.pass
    THEN /\ f = 0
         /\ Denied("api_admin_users_update", b, "admin", TRUE, g)
    ELSE /\ f <= Len(ws)
         /\ Finish("api_admin_users_update", b, "admin", TRUE, TRUE,
                   IF f = 0 THEN 200 ELSE 500, IF f = 0 THEN "success" ELSE "error",
                   Len(ws), Applied(ws, f),
                   [c \in Browsers |->
                       IF cookie[c].user_id = target /\ Applied(ws, f) > 0
                       THEN [cookie[c] EXCEPT !.is_admin = adm,
                                              !.must_change_password = (newpw # "")]
                       ELSE cookie[c]],
                   Committed(ws, f))

\* main.api_admin_users_update, PUT with a username, is_admin adm and
\* new_password newpw ("" or of six characters and more), behind
\* admin_required.  f: which of its database calls fails; the handler answers
\* the error itself.
api_admin_users_update(b, target, adm, newpw, f) ==
    LET g == admin_required(cookie[b], TRUE)
        ws == UpdateStatements(b, target, adm, newpw) IN
    IF ~g.pass
    THEN /\ f = 0
         /\ Denied("api_admin_users_update", b, "admin", TRUE, g)
    ELSE /\ f <= Len(ws)
         /\ Finish("api_admin_users_update", b, "admin", TRUE, TRUE,
                   IF f = 0 THEN 200 ELSE 500, IF f = 0 THEN "success" ELSE "error",
                   Len(ws), Applied(ws, f), cookie, Committed(ws, f))

\* main.api_admin_users_delete, behind admin_required.  f = 1: the DELETE fails.
api_admin_users_delete(b, target, f) ==
    LET g == admin_required(cookie[b], TRUE)
        ws == <<[k |-> "delete_user", id |-> target]>> IN
    IF ~g.pass
    THEN /\ f = 0
         /\ Denied("api_admin_users_delete", b, "admin", TRUE, g)
    ELSE IF target = cookie[b].user_id
    THEN /\ f = 0
         /\ Served("api_admin_users_delete", b, "admin", TRUE, 400,
                   "Cannot delete your own account")
    ELSE Finish("api_admin_users_delete", b, "admin", TRUE, TRUE,
                IF f = 0 THEN 200 ELSE 500, IF f = 0 THEN "success" ELSE "error",
                1, Applied(ws, f), cookie, Committed(ws, f))

ItemLists == {<<>>, <<2, 1>>}

\* main.api_admin_user_items_update, POST with item_ids, behind admin_required:
\* the DELETE of the user's assignments, then one INSERT for each item.
api_admin_user_items_update(b, target, item_ids, f) ==
    LET g == admin_required(cookie[b], TRUE)
        ws == <<[k |-> "delete_items", id |-> target]>>
                \o [i \in DOMAIN item_ids |->
                        [k |-> "insert_item", id |-> target, item |-> item_ids[i]]] IN
    IF ~g.pass
    THEN /\ f = 0
         /\ Denied("api_admin_user_items_update", b, "admin", TRUE, g)
    ELSE /\ f <= Len(ws)
         /\ Finish("api_admin_user_items_update", b, "admin", TRUE, TRUE,
                   IF f = 0 THEN 200 ELSE 500, IF f = 0 THEN "success" ELSE "error",
                   Len(ws), Applied(ws, f), cookie, Committed(ws, f))

\* ------------------------------------------------------- specifications
\* The access layer under concurrent callers.
Next ==
    \/ Startup
    \/ \E t \in Threads, o \in Ops : CallExecute(t, o)
    \/ \E t \in Threads : PoolStep(t)

Spec == Init /\ [][Next]_vars

\* The access layer with one call in flight at a time, and initialize_pool
\* and close_all called between and during the calls.
NextSeq ==
    \/ Startup
    \/ \E minc \in 0..MinConn, maxc \in {MaxConn, MaxConn + 1} :
            InitializePoolAgain(minc, maxc)
    \/ close_all
    \/ \E o \in Ops : CallExecute(1, o)
    \/ PoolStep(1)

SpecSeq == Init /\ [][NextSeq]_vars

\* The requests, served one at a time.  f ranges over the database calls a
\* handler can make.
NextApp ==
    \/ Startup
    \/ \E b \in Browsers, u \in UserIds, pw \in Passwords, f \in 0..2 : login(b, u, pw, f)
    \/ \E b \in Browsers : logout(b)
    \/ \E b \in Browsers : dashboard(b)
    \/ \E b \in Browsers : api_me(b)
    \/ \E b \in Browsers : admin_users(b)
    \/ \E b \in Browsers, cur \in Passwords, new \in NewPasswords, f \in 0..3 :
            change_password(b, cur, new, f)
    \/ \E b \in Browsers, target \in UserIds, adm \in BOOLEAN,
          newpw \in {""} \cup NewPasswords, f \in 0..2 :
            api_admin_users_update(b, target, adm, newpw, f)
    \/ \E b \in Browsers, target \in UserIds, f \in 0..1 :
            api_admin_users_delete(b, target, f)
    \/ \E b \in Browsers, target \in UserIds, item_ids \in ItemLists,
          f \in 0..(1 + Cardinality(Items)) :
            api_admin_user_items_update(b, target, item_ids, f)

SpecApp == Init /\ [][NextApp]_vars

\* Logins with every kind of field and against every kind of stored hash,
\* and the gated requests that follow them.
NextLogin ==
    \/ Startup
    \/ \E b \in Browsers, u \in UserIds \cup {UnknownUser, NoName},
          pw \in Passwords \cup {""}, f \in 0..2 : login(b, u, pw, f)
    \/ \E b \in Browsers : logout(b)
    \/ \E b \in Browsers : dashboard(b)
    \/ \E b \in Browsers : api_me(b)

SpecLogin == InitLogin /\ [][NextLogin]_vars

\* --------------------------------------------------- access-layer properties
\* Where a call holds its connection: from get_connection's return until
\* putconn has put the connection back or closed it.
Holding == {"execute", "commit", "except", "return_connection", "p_check", "p_put"}
Releasing == {"return_connection", "p_check", "p_put", "p_delused", "p_delrused", "return"}
Holds(t) == pc[t] \in Holding
Leased == {loc[t].conn : t \in {u \in Threads : Holds(u)}}
Mutating(t) == loc[t].op \in {"query_nofetch", "insert"}

\* C1: a call that acquired a connection has called return_connection exactly
\* once when it ends, a call whose acquisition failed has called it not at
\* all, and once every call has ended the pool records no leased connection.
ReleasedOnceAndNoneLeased ==
    /\ \A t \in Threads :
          pc[t] = "return" =>
              gh[t].returns = (IF gh[t].failedAt = "acquire" THEN 0 ELSE 1)
    /\ (\A t \in Threads : pc[t] = "idle") => DOMAIN used = {}

\* C2: no connection is held by two calls at once, and the connections held
\* at once number at most maxconn.
ExclusiveLease ==
    /\ \A t, u \in Threads :
          (t # u /\ Holds(t) /\ Holds(u)) => loc[t].conn # loc[u].conn
    /\ pool = "Open" => Cardinality(Leased) <= maxconn

\* C4: a mutating call (execute_query with fetch=False, execute_insert) whose
\* statement, fetch or commit failed has rolled back exactly once and not
\* committed before it releases the connection, and ends with the error; a
\* mutating call without a failure has committed exactly once, and not rolled
\* back, before it releases the connection.
RollbackOrSingleCommit ==
    \A t \in Threads :
        Mutating(t) =>
            /\ gh[t].commits <= 1
            /\ (gh[t].failedAt \in {"execute", "fetch", "commit"} /\ pc[t] \in Releasing)
                  => (gh[t].rollbacks = 1 /\ gh[t].commits = 0 /\ loc[t].exc # "none")
            /\ (gh[t].failedAt = "none" /\ pc[t] \in Releasing)
                  => (gh[t].commits = 1 /\ gh[t].rollbacks = 0)
            /\ gh[t].failedAt = "acquire" => (gh[t].commits = 0 /\ loc[t].exc # "none")

\* A mutating call ends after its commit failed and it rolled back.
RollbackOrSingleCommitWitness ==
    \E t \in Threads :
        /\ pc[t] = "return" /\ Mutating(t)
        /\ gh[t].failedAt = "commit" /\ gh[t].rollbacks = 1

\* C9: a call that finds all maxconn connections leased does not fail for it.
ExhaustedPoolNeverFails ==
    \A t \in Threads : loc[t].exc # "PoolExhausted"

\* C10: at most one pool is ever constructed, and an initialize_pool call on
\* a DatabaseManager that has its pool changes neither the pool object, nor
\* its limits, nor its idle and leased connections, whatever minconn and
\* maxconn it is given.
InitializeOnce ==
    [][/\ poolsCreated' <= 1
       /\ (reinit' # reinit) => UNCHANGED <<poolVars, cst>>]_vars

\* initialize_pool has been called again while a connection was leased.
InitializeOnceWitness == reinit > 0 /\ DOMAIN used # {} /\ pool = "Open"

\* C13: once the pool is closed it stays closed and in place, no pool is
\* constructed, and every execute_* call that starts ends at once with the
\* pool-closed error and without a connection.
ClosedPoolStaysClosed ==
    [][closed =>
          /\ closed' /\ pool' = pool /\ poolsCreated' = poolsCreated
          /\ \A t \in Threads :
                (pc[t] = "idle" /\ pc'[t] # "idle") =>
                    /\ pc'[t] = "return"
                    /\ loc'[t].exc = "PoolClosed"
                    /\ loc'[t].conn = NoConn]_vars

\* A call made after close_all has ended with the pool-closed error.
ClosedPoolStaysClosedWitness ==
    /\ closed
    /\ \E t \in Threads :
          pc[t] = "return" /\ loc[t].exc = "PoolClosed" /\ gh[t].failedAt = "acquire"

\* -------------------------------------------------------- request properties
\* A step that serves a request.
Serves == nreq' # nreq
MultiStatement == {"change_password", "api_admin_users_update",
                   "api_admin_user_items_update"}

\* C3: when a statement of a multi-statement write fails after an earlier one
\* of the same request, the request leaves the database as it found it.
FailedWriteLeavesStoreUnchanged ==
    [][(Serves /\ last'.h \in MultiStatement /\ last'.applied < last'.issued)
          => store' = store]_vars

\* C5: a request to a gated handler whose session holds no user_id does not
\* enter the handler and changes neither the database nor any session; it is
\* answered 401 'Unauthorized' on an /api/ path and redirected to login
\* otherwise.
NoSessionNeverRuns ==
    [][(Serves /\ last'.gate # "none" /\ cookie[last'.b].user_id = NoUser)
          => /\ ~last'.ran
             /\ store' = store
             /\ cookie' = cookie
             /\ IF last'.api
                THEN last'.status = 401 /\ last'.body = "Unauthorized"
                ELSE last'.status = 302 /\ last'.body = "login"]_vars

\* An /api/ request behind admin_required came without a session and got 401.
NoSessionNeverRunsWitness ==
    /\ last.gate = "admin" /\ last.api
    /\ last.session.user_id = NoUser
    /\ last.status = 401

\* C6: behind admin_required, a session without user_id is answered as
\* unauthenticated, never as forbidden; a session with user_id and is_admin
\* false does not reach the handler and gets 403 on an /api/ path and a
\* redirect to the dashboard on a page path; a session with user_id and
\* is_admin true reaches the handler.
AdminGate ==
    last.gate = "admin" =>
        IF last.session.user_id = NoUser
        THEN ~last.ran /\ last.status # 403 /\ last.body # "dashboard"
        ELSE IF last.session.is_admin
        THEN last.ran
        ELSE /\ ~last.ran
             /\ IF last.api
                THEN /\ last.status = 403
                     /\ last.body = "Forbidden - Admin access required"
                ELSE last.status = 302 /\ last.body = "dashboard"

\* A logged-in user who is no administrator asked for an admin page.
AdminGateWitness ==
    /\ last.gate = "admin" /\ ~last.api
    /\ last.session.user_id # NoUser /\ ~last.session.is_admin
    /\ last.body = "dashboard"

\* C7: a request whose session names a deleted user is treated as
\* unauthenticated: the handler does not run, and the answer is 401 on an
\* /api/ path and a redirect to login on a page path.
DeletedUserIsUnauthenticated ==
    (last.gate # "none" /\ last.gone) =>
        /\ ~last.ran
        /\ IF last.api THEN last.status = 401
                       ELSE last.status = 302 /\ last.body = "login"

\* C8: a session changes only through a login, a logout or a password change
\* made with that very session, so an administrator's update of the user
\* leaves it as it was; a login copies is_admin and must_change_password from
\* the user's row as it is then; and the gates and handlers decide by the
\* session's values, not by the row's.
SnapshotUntilLogin ==
    [][/\ \A b \in Browsers :
            cookie'[b] # cookie[b] =>
                (last'.b = b /\ last'.h \in {"login", "logout", "change_password"})
       /\ (Serves /\ last'.h = "login" /\ last'.status = 200) =>
            LET s == cookie'[last'.b] IN
            /\ s.is_admin = store.users[s.user_id].is_admin
            /\ s.must_change_password = store.users[s.user_id].must_change_password
       /\ (Serves /\ last'.gate = "admin") =>
            (last'.ran <=> (cookie[last'.b].user_id # NoUser /\ cookie[last'.b].is_admin))
       /\ (Serves /\ last'.h = "dashboard" /\ last'.ran) =>
            (last'.body = "change_password" <=> cookie[last'.b].must_change_password)
      ]_vars

\* An admin page was decided by a session whose is_admin is no longer the
\* is_admin of the user's row.
SnapshotUntilLoginWitness ==
    /\ last.h = "admin_users"
    /\ last.session.user_id # NoUser
    /\ store.users[last.session.user_id].exists
    /\ store.users[last.session.user_id].is_admin # last.session.is_admin
    /\ last.ran = last.session.is_admin

\* ---------------------------------------------------------- login properties
\* The login request served last went through its database calls, with both
\* fields given, for a username that has a row.
LoginOfExistingUser ==
    /\ last.h = "login" /\ ~last.dbfail /\ last.status # 400
    /\ last.user \in UserIds
    /\ store.users[last.user].exists

\* C11: a login against a user whose stored hash is malformed is answered
\* 401 'Invalid username or password', as a wrong password is.
MalformedHashIsWrongPassword ==
    (LoginOfExistingUser /\ Malformed(store.users[last.user].password_hash))
        => (last.status = 401 /\ last.body = "Invalid username or password")

\* C12: a login with a wrong password for a username that has a row is
\* answered with the status and body a login for a username without a row
\* gets, and a session without identity is without identity afterwards.
UnknownAndWrongAnswerAlike ==
    (LoginOfExistingUser /\ last.status # 200) =>
        /\ last.status = LoginReply(UnknownUser, "pw1").status
        /\ last.body = LoginReply(UnknownUser, "pw1").body
        /\ last.session.user_id = NoUser => cookie[last.b].user_id = NoUser

\* C14: a login from a session without identity that does not end in its
\* success response leaves the session without identity.
FailedLoginLeavesNoIdentity ==
    [][(Serves /\ last'.h = "login" /\ cookie[last'.b].user_id = NoUser
            /\ last'.status # 200)
          => cookie'[last'.b].user_id = NoUser]_vars
====
